---- MODULE Spec2Model ----
(***************************************************************************)
(* The line-pattern repairer of fix_backticks.py (variant 1) and           *)
(* fix_backticks2.py (variant 2).                                          *)
(*                                                                         *)
(* A text is a sequence of lexemes.  Every lexeme is one character, except *)
(* the literals the two scripts test as a whole ("role:", "description:",  *)
(* "content:", "input", "output") and the word "other", which stand for    *)
(* the character strings of the same spelling.  The patterns of the code   *)
(* that look at single characters ([^`'"], [^\n]+, .+, startswith) only    *)
(* need the first character of a lexeme and whether it is longer than one  *)
(* character; both are kept (Wide).                                        *)
(***************************************************************************)
EXTENDS Integers, Sequences, FiniteSets, TLC

VARIABLES
    variant,      \* 1: fix_backticks.py is run, 2: fix_backticks2.py
    file,         \* the text stored at filepath
    content,      \* fix_file: content
    lines,        \* fix_file: lines
    fixed_lines,  \* fix_file: fixed_lines
    i,            \* fix_file: i (1-based here)
    line,         \* fix_file: line
    pc,           \* position in fix_file
    runs,         \* number of invocations of the script so far
    orig          \* the text of the file when the script was last started

vars == <<variant, file, content, lines, fixed_lines, i, line, pc, runs, orig>>

(***************************************************************************)
(* Bounds of the model.                                                    *)
(***************************************************************************)
MaxTail == 3
MaxLines == 3
MaxRuns == 2

(***************************************************************************)
(* Lexemes.                                                                *)
(***************************************************************************)
BT == "BT"   \* the backtick character
SQ == "'"
DQ == "\""
BS == "\\"
SP == " "
NL == "\n"
CM == ","
KwRole == "role:"
KwDesc == "description:"
KwContent == "content:"

Wide == {KwRole, KwDesc, KwContent, "input", "output", "other"}

(***************************************************************************)
(* Python's str and list primitives, on sequences of lexemes.              *)
(***************************************************************************)
Take(s, n) == SubSeq(s, 1, n)

Drop(s, n) == SubSeq(s, n + 1, Len(s))

\* s[k:].startswith(p), k 1-based
MatchAt(s, p, k) ==
    /\ k >= 1
    /\ k + Len(p) - 1 <= Len(s)
    /\ \A j \in 1..Len(p) : s[k + j - 1] = p[j]

\* s.find(p) + 1: the leftmost occurrence, 0 when there is none
Find(s, p) ==
    IF \E k \in 1..Len(s) : MatchAt(s, p, k)
    THEN CHOOSE k \in 1..Len(s) :
             MatchAt(s, p, k) /\ \A m \in 1..(k - 1) : ~MatchAt(s, p, m)
    ELSE 0

\* p in s
Contains(s, p) == Find(s, p) # 0

\* c in s, for one character c
HasChar(s, c) == \E k \in 1..Len(s) : s[k] = c

\* s.count(c), for one character c
Count(s, c) == Cardinality({k \in 1..Len(s) : s[k] = c})

StartsWith(s, p) == MatchAt(s, p, 1)

EndsWith(s, p) == Len(p) <= Len(s) /\ MatchAt(s, p, Len(s) - Len(p) + 1)

\* s.replace(p, r): every leftmost non-overlapping occurrence
RECURSIVE Replace(_, _, _)
Replace(s, p, r) ==
    LET k == Find(s, p)
    IN  IF k = 0 THEN s
        ELSE Take(s, k - 1) \o r \o Replace(Drop(s, k + Len(p) - 1), p, r)

\* s.replace(c, ""), for one character c
RemoveChar(s, c) == SelectSeq(s, LAMBDA t : t # c)

\* number of leading white-space characters of s
RECURSIVE LeadingSpaces(_)
LeadingSpaces(s) ==
    IF s # <<>> /\ s[1] = SP THEN 1 + LeadingSpaces(Tail(s)) ELSE 0

RECURSIVE TrailingSpaces(_)
TrailingSpaces(s) ==
    IF s # <<>> /\ s[Len(s)] = SP
    THEN 1 + TrailingSpaces(Take(s, Len(s) - 1)) ELSE 0

\* s.strip()
Strip(s) ==
    LET a == Drop(s, LeadingSpaces(s))
    IN  Take(a, Len(a) - TrailingSpaces(a))

\* content.split('\n')
RECURSIVE Split(_)
Split(text) ==
    LET k == Find(text, <<NL>>)
    IN  IF k = 0 THEN <<text>>
        ELSE <<Take(text, k - 1)>> \o Split(Drop(text, k))

\* '\n'.join(fixed_lines)
RECURSIVE Join(_)
Join(ls) ==
    IF ls = <<>> THEN <<>>
    ELSE IF Len(ls) = 1 THEN ls[1]
    ELSE ls[1] \o <<NL>> \o Join(Tail(ls))

\* a string of at least two characters
TwoChars(s) == Len(s) >= 2 \/ (Len(s) = 1 /\ s[1] \in Wide)

(***************************************************************************)
(* Rule 1: role values.                                                    *)
(***************************************************************************)
RoleWrapped(w) == <<KwRole, SP, SQ, BT, w, BT, SQ>>

RolePlain(w) == <<KwRole, SP, SQ, w, SQ>>

\* A faulty variant of Role1: the backticks around every known word are taken
\* off, not only around input and output.
Role1Loose(l) ==
    Replace(Replace(Replace(l, RoleWrapped("input"), RolePlain("input")),
                    RoleWrapped("output"), RolePlain("output")),
            RoleWrapped("other"), RolePlain("other"))

\* fix_backticks.py: two guarded str.replace calls
Role1(l) ==
    LET a == IF Contains(l, RoleWrapped("input"))
             THEN Replace(l, RoleWrapped("input"), RolePlain("input"))
             ELSE l
    IN  IF Contains(a, RoleWrapped("output"))
        THEN Replace(a, RoleWrapped("output"), RolePlain("output"))
        ELSE a

\* fix_backticks2.py: re.sub(r"role: '`(input|output)`'", r"role: '\1'", line)
RECURSIVE Role2(_)
Role2(l) ==
    IF l = <<>> THEN <<>>
    ELSE IF \E w \in {"input", "output"} : MatchAt(l, RoleWrapped(w), 1)
    THEN RolePlain(l[5]) \o Role2(Drop(l, 7))
    ELSE <<l[1]>> \o Role2(Tail(l))

(***************************************************************************)
(* Rule 2: descriptions.                                                   *)
(***************************************************************************)
\* The regular expression description:\s*'[^']*`[^']*' tried at position k:
\* the position of the closing quote of the match, 0 when it does not match.
DescMatchEnd(l, k) ==
    IF ~(k \in 1..Len(l) /\ l[k] = KwDesc) THEN 0
    ELSE LET q == k + 1 + LeadingSpaces(Drop(l, k))
         IN  IF ~(q <= Len(l) /\ l[q] = SQ) THEN 0
             ELSE LET e == Find(Drop(l, q), <<SQ>>)
                  IN  IF e = 0 THEN 0
                      ELSE IF HasChar(SubSeq(l, q + 1, q + e - 1), BT)
                      THEN q + e
                      ELSE 0

\* re.search: the leftmost position at which the expression matches, or 0
DescSearch(l) ==
    IF \E k \in 1..Len(l) : DescMatchEnd(l, k) # 0
    THEN CHOOSE k \in 1..Len(l) :
             DescMatchEnd(l, k) # 0 /\ \A m \in 1..(k - 1) : DescMatchEnd(l, m) = 0
    ELSE 0

\* fix_backticks.py: strip the backticks of the matched text
Desc1(l) ==
    IF HasChar(l, KwDesc) /\ HasChar(l, BT) /\ HasChar(l, SQ)
    THEN LET k == DescSearch(l)
         IN  IF k # 0
             THEN LET old_desc == SubSeq(l, k, DescMatchEnd(l, k))
                      new_desc == RemoveChar(old_desc, BT)
                  IN  Replace(l, old_desc, new_desc)
             ELSE l
    ELSE l

\* re.sub(r"`([^`]*)`", r"\1", line): drop the backticks pair by pair
RECURSIVE UnwrapPairs(_)
UnwrapPairs(l) ==
    LET a == Find(l, <<BT>>)
    IN  IF a = 0 THEN l
        ELSE LET rest == Drop(l, a)
                 b == Find(rest, <<BT>>)
             IN  IF b = 0 THEN l
                 ELSE Take(l, a - 1) \o Take(rest, b - 1)
                          \o UnwrapPairs(Drop(rest, b))

\* A faulty variant of Desc2: the substitution without its guard.
Desc2Unguarded(l) == UnwrapPairs(l)

\* fix_backticks2.py
Desc2(l) == IF DescSearch(l) # 0 THEN UnwrapPairs(l) ELSE l

(***************************************************************************)
(* Escaping of the backticks inside a content value.                       *)
(***************************************************************************)
\* re.sub(r'(?<!\\)`', r'\\`', s)
RECURSIVE EscapeFrom(_, _)
EscapeFrom(s, k) ==
    IF k > Len(s) THEN <<>>
    ELSE (IF s[k] = BT /\ (k = 1 \/ s[k - 1] # BS) THEN <<BS, BT>> ELSE <<s[k]>>)
             \o EscapeFrom(s, k + 1)

\* A faulty variant of EscapeUnescaped: the expression without its
\* look-behind, re.sub(r'`', r'\\`', s).
RECURSIVE EscapeEvery(_)
EscapeEvery(s) ==
    IF s = <<>> THEN <<>>
    ELSE (IF s[1] = BT THEN <<BS, BT>> ELSE <<s[1]>>) \o EscapeEvery(Tail(s))

EscapeUnescaped(s) == EscapeFrom(s, 1)

ContentOpen == <<KwContent, SP, BT>>

\* fix_backticks.py, lines 46-57
CaseB1(l) ==
    IF Contains(l, ContentOpen) /\ ~EndsWith(Strip(l), <<BT>>)
    THEN LET k == Find(l, ContentOpen)
             content_part == Drop(l, k + 2)
         IN  IF HasChar(content_part, BT) /\ ~EndsWith(content_part, <<BT>>)
             THEN LET before_content == Take(l, k - 1) \o ContentOpen
                      fixed_content == EscapeUnescaped(content_part)
                  IN  before_content \o fixed_content
             ELSE l
    ELSE l

\* fix_backticks2.py, lines 38-58
CaseB2(l) ==
    IF Contains(l, ContentOpen) /\ Count(l, BT) > 2
    THEN LET k == Find(l, ContentOpen)
             prefix == Take(l, k - 1) \o ContentOpen
             rest == Drop(l, k + 2)
         IN  IF EndsWith(rest, <<BT, CM>>)
             THEN prefix \o EscapeUnescaped(Take(rest, Len(rest) - 2)) \o <<BT, CM>>
             ELSE IF EndsWith(rest, <<BT>>)
             THEN prefix \o EscapeUnescaped(Take(rest, Len(rest) - 1)) \o <<BT>>
             ELSE l
    ELSE l

(***************************************************************************)
(* Wrapping of a content value that has no delimiters.                     *)
(***************************************************************************)
\* (.+)
AnyText(g) == g # <<>>

\* ([^`\'"][^\n]+)
BareText(g) == g # <<>> /\ g[1] \notin {BT, SQ, DQ} /\ TwoChars(g)

\* The start of group 2 of ^(\s*content:\s*)(G)$, where G is [^`\'"][^\n]+
\* when bare and .+ otherwise: \s* is greedy and gives white space back
\* until G matches.  0 when the expression does not match.
ContentGroup2(l, bare) ==
    LET w == LeadingSpaces(l)
    IN  IF ~(w + 1 <= Len(l) /\ l[w + 1] = KwContent) THEN 0
        ELSE LET m == LeadingSpaces(Drop(l, w + 1))
                 good == {k \in 0..m :
                             IF bare THEN BareText(Drop(l, w + 1 + k))
                             ELSE AnyText(Drop(l, w + 1 + k))}
             IN  IF good = {} THEN 0
                 ELSE w + 2 + (CHOOSE k \in good : \A j \in good : j <= k)

\* fix_backticks.py, lines 59-71
CaseA1(l) ==
    IF /\ HasChar(l, KwContent)
       /\ ~Contains(l, ContentOpen)
       /\ ~Contains(l, <<KwContent, SP, SQ>>)
       /\ ~Contains(l, <<KwContent, SP, DQ, DQ>>)
       /\ StartsWith(Strip(l), <<KwContent>>)
    THEN LET g == ContentGroup2(l, FALSE)
         IN  IF g # 0
             THEN LET prefix == Take(l, g - 1)
                      text == Strip(Drop(l, g - 1))
                  IN  IF text # <<>> /\ text[1] \notin {BT, SQ, DQ}
                      THEN prefix \o <<BT>> \o text \o <<BT>>
                      ELSE l
             ELSE l
    ELSE l

\* fix_backticks2.py, lines 28-36
CaseA2(l) ==
    IF HasChar(l, KwContent)
    THEN LET g == ContentGroup2(l, TRUE)
         IN  IF g # 0
             THEN LET prefix == Take(l, g - 1)
                      text == Strip(Drop(l, g - 1))
                  IN  IF text # <<>> /\ ~EndsWith(text, <<BT>>)
                      THEN prefix \o <<BT>> \o text \o <<BT>>
                      ELSE l
             ELSE l
    ELSE l

\* one iteration of the loop of either script
FixLine(v, l) ==
    IF v = 1 THEN CaseA1(CaseB1(Desc1(Role1(l))))
    ELSE CaseB2(CaseA2(Desc2(Role2(l))))

(***************************************************************************)
(* The documents the scripts are run on.                                   *)
(***************************************************************************)
\* how a line starts
Heads ==
    { <<>>,
      <<KwContent>>,
      <<KwContent, SP>>,
      <<SP, KwContent, SP>>,
      <<KwContent, SP, BT>>,
      <<KwContent, SP, BT, BS, BT>>,
      <<"x", SP, KwContent, SP, BT>>,
      <<KwDesc, SP, SQ>>,
      RoleWrapped("input"),
      RoleWrapped("output"),
      RoleWrapped("other") }

\* the characters a line goes on with
TailChars == {BT, BS, "x", CM, SQ, SP}

Tails == UNION {[1..n -> TailChars] : n \in 0..MaxTail}

LineDocs == {h \o t : h \in Heads, t \in Tails}

\* the examples of the specification's testable properties, and lines that
\* hold two fields
Samples ==
    { <<KwContent, SP, BT, "x", BT, "x", BT, "x", BT, CM>>,
      <<KwContent, SP, BT, "x", BT, "x", BT, "x", BT>>,
      <<KwContent, SP, "x", BT, "x", BT, "x">>,
      <<SP, SP, KwContent, SP, "other", SP, "x">>,
      <<KwDesc, SP, SQ, "x", BT, "x", BT, "x", SQ>>,
      <<KwDesc, SQ, BT, KwDesc, SQ, BT, SQ>>,
      <<KwContent, SP, BT, "x", BS, BT, "x", BT, "x", BT>>,
      RoleWrapped("other") \o <<CM, SP, KwDesc, SP, SQ, BT, "x", BT, SQ>>,
      <<KwContent, SP, BT>> \o RoleWrapped("other") \o <<"x">>,
      RoleWrapped("input") \o <<CM, SP>> \o RoleWrapped("other"),
      <<KwContent, SP, "x", BS, BS>> }

\* the lines of the documents of several lines
DocLines ==
    { <<>>,
      <<"x">>,
      <<KwContent, SP, BT, "x">>,
      <<KwContent, SP, BT, BS, BT, "x">>,
      <<KwContent, SP, "x">>,
      <<"x", BT, CM>>,
      RoleWrapped("input") }

MultiDocs ==
    {Join(ls) : ls \in UNION {[1..n -> DocLines] : n \in 2..MaxLines}}

Docs == LineDocs \cup Samples \cup MultiDocs

(***************************************************************************)
(* The run of a script: fix_file.                                          *)
(***************************************************************************)
Init ==
    /\ variant \in {1, 2}
    /\ file \in Docs
    /\ content = <<>>
    /\ lines = <<>>
    /\ fixed_lines = <<>>
    /\ i = 0
    /\ line = <<>>
    /\ pc = "idle"
    /\ runs = 0
    /\ orig = file

\* the script is started: python3 fix_backticks.py
Main ==
    /\ pc \in {"idle", "done"}
    /\ runs < MaxRuns
    /\ runs' = runs + 1
    /\ content' = <<>>
    /\ lines' = <<>>
    /\ fixed_lines' = <<>>
    /\ i' = 0
    /\ line' = <<>>
    /\ pc' = "read"
    /\ orig' = file
    /\ UNCHANGED <<variant, file>>

\* with open(filepath, 'r') as f: content = f.read(); lines = content.split('\n')
ReadFile ==
    /\ pc = "read"
    /\ content' = file
    /\ lines' = Split(file)
    /\ fixed_lines' = <<>>
    /\ i' = 1
    /\ pc' = "loop"
    /\ UNCHANGED <<variant, file, line, runs, orig>>

\* open(filepath, 'r') raises
ReadFail ==
    /\ pc = "read"
    /\ pc' = "failed_read"
    /\ UNCHANGED <<variant, file, content, lines, fixed_lines, i, line, runs, orig>>

\* while i < len(lines): line = lines[i]
LoopTest ==
    /\ pc = "loop"
    /\ IF i <= Len(lines)
       THEN line' = lines[i] /\ pc' = "role"
       ELSE line' = line /\ pc' = "open"
    /\ UNCHANGED <<variant, file, content, lines, fixed_lines, i, runs, orig>>

Rule(at, v, new, next) ==
    /\ pc = at
    /\ variant = v
    /\ line' = new
    /\ pc' = next
    /\ UNCHANGED <<variant, file, content, lines, fixed_lines, i, runs, orig>>

RoleStep1 == Rule("role", 1, Role1(line), "desc")

DescStep1 == Rule("desc", 1, Desc1(line), "caseB")

CaseBStep1 == Rule("caseB", 1, CaseB1(line), "caseA")

CaseAStep1 == Rule("caseA", 1, CaseA1(line), "append")

RoleStep2 == Rule("role", 2, Role2(line), "desc")

DescStep2 == Rule("desc", 2, Desc2(line), "caseA")

CaseAStep2 == Rule("caseA", 2, CaseA2(line), "caseB")

CaseBStep2 == Rule("caseB", 2, CaseB2(line), "append")

\* A faulty variant of AppendLine: every line is written to the file as soon
\* as it is repaired.
AppendLineStreaming ==
    /\ pc = "append"
    /\ fixed_lines' = Append(fixed_lines, line)
    /\ file' = Join(fixed_lines')
    /\ i' = i + 1
    /\ pc' = "loop"
    /\ UNCHANGED <<variant, content, lines, line, runs, orig>>

\* fixed_lines.append(line); i += 1
AppendLine ==
    /\ pc = "append"
    /\ fixed_lines' = Append(fixed_lines, line)
    /\ i' = i + 1
    /\ pc' = "loop"
    /\ UNCHANGED <<variant, file, content, lines, line, runs, orig>>

\* open(filepath, 'w'): the file is truncated
OpenWrite ==
    /\ pc = "open"
    /\ file' = <<>>
    /\ pc' = "write"
    /\ UNCHANGED <<variant, content, lines, fixed_lines, i, line, runs, orig>>

\* open(filepath, 'w') raises
OpenFail ==
    /\ pc = "open"
    /\ pc' = "failed_open"
    /\ UNCHANGED <<variant, file, content, lines, fixed_lines, i, line, runs, orig>>

\* f.write('\n'.join(fixed_lines)), the file is closed, print(...)
WriteFile ==
    /\ pc = "write"
    /\ file' = Join(fixed_lines)
    /\ pc' = "done"
    /\ UNCHANGED <<variant, content, lines, fixed_lines, i, line, runs, orig>>

\* the write raises after part of the text has reached the file
WriteFail ==
    /\ pc = "write"
    /\ \E n \in 0..(Len(Join(fixed_lines)) - 1) : file' = Take(Join(fixed_lines), n)
    /\ pc' = "failed_write"
    /\ UNCHANGED <<variant, content, lines, fixed_lines, i, line, runs, orig>>

Next ==
    \/ Main
    \/ ReadFile
    \/ ReadFail
    \/ LoopTest
    \/ RoleStep1
    \/ DescStep1
    \/ CaseBStep1
    \/ CaseAStep1
    \/ RoleStep2
    \/ DescStep2
    \/ CaseAStep2
    \/ CaseBStep2
    \/ AppendLine
    \/ OpenWrite
    \/ OpenFail
    \/ WriteFile
    \/ WriteFail

Spec == Init /\ [][Next]_vars

(***************************************************************************)
(* Properties.                                                             *)
(***************************************************************************)
\* number of occurrences of p in s
Occ(s, p) == Cardinality({k \in 1..Len(s) : MatchAt(s, p, k)})

\* the backticks of s that no backslash precedes
Unescaped(s) == {k \in 1..Len(s) : s[k] = BT /\ (k = 1 \/ s[k - 1] # BS)}

\* the line the loop is at, as it was read
Input == lines[i]

\* the repaired text of a document
Repaired(v, text) ==
    LET ls == Split(text)
    IN  Join([k \in 1..Len(ls) |-> FixLine(v, ls[k])])

\* C1: a second run of the script on the text the first run wrote leaves
\* the text as it is: repair(repair(d)) = repair(d).
C1_Idempotent == (pc = "done" /\ runs = 2) => file = content

\* the lines C2 is about
C2_Closed(l) ==
    /\ Contains(l, ContentOpen)
    /\ LET rest == Drop(l, Find(l, ContentOpen) + 2)
       IN  \/ EndsWith(rest, <<BT, CM>>) /\ HasChar(Take(rest, Len(rest) - 2), BT)
           \/ EndsWith(rest, <<BT>>) /\ HasChar(Take(rest, Len(rest) - 1), BT)

C2_Expected(l) ==
    LET k == Find(l, ContentOpen)
        rest == Drop(l, k + 2)
        n == IF EndsWith(rest, <<BT, CM>>) THEN 2 ELSE 1
    IN  Take(l, k + 2) \o EscapeUnescaped(Take(rest, Len(rest) - n))
            \o Drop(rest, Len(rest) - n)

\* C2: a line that holds "content: `" and whose text after that backtick ends
\* with a closing backtick or backtick-comma and holds a further backtick
\* before it is repaired to the same line with every unescaped interior
\* backtick escaped and the closing backtick, or backtick-comma, as it was.
C2_InteriorEscaped ==
    (pc = "append" /\ C2_Closed(Input)) => line = C2_Expected(Input)

\* the length of the prefix of a content line: white space, "content:", white space
C3_ValueAt(l) == LeadingSpaces(l) + 1 + LeadingSpaces(Drop(l, LeadingSpaces(l) + 1))

C3_Bare(l) ==
    /\ LeadingSpaces(l) < Len(l)
    /\ l[LeadingSpaces(l) + 1] = KwContent
    /\ Strip(Drop(l, C3_ValueAt(l))) # <<>>
    /\ l[C3_ValueAt(l) + 1] \notin {BT, SQ, DQ}

\* C3: a line that starts, after white space, with "content:" and whose value
\* is not empty and begins with neither a backtick nor a quote is repaired to
\* its prefix (white space, "content:", white space), a backtick, the whole
\* value and a closing backtick.
C3_Wrapped ==
    (pc = "append" /\ C3_Bare(Input)) =>
        line = Take(Input, C3_ValueAt(Input)) \o <<BT>>
                   \o Strip(Drop(Input, C3_ValueAt(Input))) \o <<BT>>

\* C4: a line with a description field whose quoted value holds a backtick is
\* repaired to the same line with every backtick of that value deleted and no
\* other character changed.
C4_DescriptionStripped ==
    (pc = "append" /\ DescSearch(Input) # 0) =>
        LET k == DescSearch(Input)
            e == DescMatchEnd(Input, k)
        IN  line = Take(Input, k - 1) \o RemoveChar(SubSeq(Input, k, e), BT)
                       \o Drop(Input, e)

C6_Step(a, b) ==
    /\ RemoveChar(b, BS) = RemoveChar(a, BS)
    /\ Count(b, BS) - Count(a, BS) <= Cardinality(Unescaped(a))
    /\ Occ(b, <<BS, BS, BT>>) = Occ(a, <<BS, BS, BT>>)
    /\ Occ(b, <<BS, BT>>) >= Occ(a, <<BS, BT>>)

Unrelated(l) == ~HasChar(l, KwRole) /\ ~HasChar(l, KwDesc) /\ ~HasChar(l, KwContent)

\* C7: a line that holds none of "role:", "description:" and "content:" is
\* written as it was read, at the same place, and the text written has as
\* many lines as the text read.
C7_UnrelatedUntouched ==
    pc = "done" =>
        /\ Len(Split(file)) = Len(Split(content))
        /\ \A k \in 1..Len(Split(content)) :
               Unrelated(Split(content)[k]) => Split(file)[k] = Split(content)[k]

C7_Witness ==
    /\ pc = "done"
    /\ Len(Split(content)) >= 3
    /\ file # content
    /\ \E k \in 1..Len(Split(content)) :
           /\ Unrelated(Split(content)[k])
           /\ HasChar(Split(content)[k], BT)
           /\ k > 1
           /\ Split(file)[k - 1] # Split(content)[k - 1]

\* a document that is one well-formed content value of several lines
C8_WellFormed(text) ==
    LET ls == Split(text)
        n == Len(ls)
    IN  /\ n >= 2
        /\ StartsWith(Strip(ls[1]), ContentOpen)
        /\ Unescaped(Drop(Strip(ls[1]), 3)) = {}
        /\ \A k \in 2..(n - 1) : Unescaped(ls[k]) = {}
        /\ \/ EndsWith(ls[n], <<BT>>) /\ Unescaped(Take(ls[n], Len(ls[n]) - 1)) = {}
           \/ EndsWith(ls[n], <<BT, CM>>) /\ Unescaped(Take(ls[n], Len(ls[n]) - 2)) = {}

\* C8: a content value that spans several lines and is well formed (the
\* opening backtick on the "content: `" line, the closing backtick at the end
\* of a later line, every other backtick escaped) is written as it was read,
\* whatever its interior lines hold.
C8_NoCrossLineBleed == (pc = "done" /\ C8_WellFormed(content)) => file = content

C10_Order ==
    /\ pc = "role" => pc' = "desc"
    /\ pc = "desc" => pc' = "caseA"
    /\ pc = "caseA" => pc' = "caseB"
    /\ pc = "caseB" => pc' = "append"

\* the example of the claim
C10_Example ==
    (pc = "append" /\ Input = <<KwContent, SP, "x", BT, "x", BT, "x">>) =>
        line = <<KwContent, SP, BT, "x", BS, BT, "x", BS, BT, "x", BT>>

\* C10: on every line the rules run in the order role, description, case A,
\* case B, each on the line the rule before it left; so the bare value of
\* content: Use `code` here is wrapped and its backticks are escaped.
C10_RuleOrder == [][C10_Order]_vars /\ []C10_Example

====
